---- MODULE Spec2Model ----
(***************************************************************************)
(* Model of divio_cli/api_requests.py: the Host Session                    *)
(* (SingleHostSession), the request contract (APIRequest / APIV3Request),  *)
(* the response strategies (RawResponse, TextResponse, JsonResponse,       *)
(* FileResponse, DjangoFormMixin) and FinishBackupUploadRequest.           *)
(*                                                                         *)
(* Python str values are sequences of one-character strings, so that       *)
(* slicing, str.replace and str.rstrip are computed as Python computes     *)
(* them.  A response body carries its text (a sequence of characters) and  *)
(* the value response.json() yields for it.                                *)
(***************************************************************************)
EXTENDS Integers, Sequences, FiniteSets, TLC

VARIABLES
    response_code_error_map, \* APIRequest.response_code_error_map (class attribute)
    cls,                     \* class of the current request instance
    session,                 \* self.session
    url,                     \* self.url (template)
    url_kwargs,              \* self.url_kwargs
    filename,                \* self.filename (FileResponse)
    directory,               \* self.directory (FileResponse)
    pc,                      \* position of the current dispatch
    trace,                   \* positions the current dispatch went through
    sent,                    \* requests handed to the transport by this dispatch
    response,                \* the response the transport returned
    login,                   \* what get_login did in this dispatch
    rewrote,                 \* this instance rewrote its not-found entry
    outcome,                 \* value returned / exception raised by request()
    procCalls,               \* calls of self.process in this dispatch
    verifyCalls,             \* calls of self.verify in this dispatch
    file,                    \* the dump file of FileResponse.process
    delivered                \* chunks iter_content yielded so far

vars == <<response_code_error_map, cls, session, url, url_kwargs, filename,
          directory, pc, trace, sent, response, login, rewrote, outcome,
          procCalls, verifyCalls, file, delivered>>

-----------------------------------------------------------------------------
(* Bounds of the model *)

\* most chunks one streamed body is delivered in
MaxChunks == 3
\* most bytes in one modelled chunk (iter_content yields at most chunk_size)
MaxChunkLen == 2
\* most pieces a modelled host or path is built from
MaxPieces == 2

\* response_content[:300]
TruncLen == 300

-----------------------------------------------------------------------------
(* Python str helpers *)

Min(a, b) == IF a <= b THEN a ELSE b

\* s[:n]
Slice(s, n) == SubSeq(s, 1, Min(Len(s), n))

\* s[i:]  (1-based i)
Tail_(s, i) == SubSeq(s, i, Len(s))

StartsWithAt(s, p, i) ==
    /\ i + Len(p) - 1 <= Len(s)
    /\ SubSeq(s, i, i + Len(p) - 1) = p

RECURSIVE FindFrom(_, _, _)
\* s.find(p) scanning from index i; 0 when p does not occur
FindFrom(s, p, i) ==
    IF i + Len(p) - 1 > Len(s) THEN 0
    ELSE IF StartsWithAt(s, p, i) THEN i
    ELSE FindFrom(s, p, i + 1)

RECURSIVE StrReplace(_, _, _, _)
\* s.replace(old, new, count); count < 0 replaces every occurrence
StrReplace(s, old, new, count) ==
    IF count = 0 THEN s
    ELSE LET i == FindFrom(s, old, 1)
         IN  IF i = 0 THEN s
             ELSE SubSeq(s, 1, i - 1) \o new \o
                  StrReplace(Tail_(s, i + Len(old)), old, new, count - 1)

RECURSIVE RStrip(_, _)
\* s.rstrip(ch)
RStrip(s, ch) ==
    IF s # <<>> /\ s[Len(s)] = ch THEN RStrip(SubSeq(s, 1, Len(s) - 1), ch)
    ELSE s

RECURSIVE Flatten(_)
Flatten(ss) == IF ss = <<>> THEN <<>> ELSE Head(ss) \o Flatten(Tail(ss))

-----------------------------------------------------------------------------
(* URLs *)

SCHEME  == <<"h", ":", "/", "/">>
CONTROL == <<"c", "o", "n", "t", "r", "o", "l">>
API     == <<"a", "p", "i">>
SLASH   == <<"/">>
\* the placeholder of a URL template, "{id}"
PLACEHOLDER == "{id}"

\* url_kwargs without the key the template names
NoKwargs == [given |-> FALSE, value |-> <<>>]
Kwargs(v) == [given |-> TRUE, value |-> v]

HasPlaceholder(t) == \E i \in 1..Len(t) : t[i] = PLACEHOLDER

RECURSIVE Format(_, _)
\* self.url.format(**self.url_kwargs), every placeholder supplied
Format(t, kw) ==
    IF t = <<>> THEN <<>>
    ELSE (IF Head(t) = PLACEHOLDER THEN kw.value ELSE <<Head(t)>>)
         \o Format(Tail(t), kw)

\* APIRequest.get_url: the rendered URL, or KeyError for a missing placeholder
get_url(t, kw) ==
    IF HasPlaceholder(t) /\ ~kw.given
    THEN [ok |-> FALSE, url |-> <<>>]
    ELSE [ok |-> TRUE, url |-> Format(t, kw)]

IsAbsolute(u) == StartsWithAt(u, SCHEME, 1)

\* urllib.parse.urljoin(base, u) for a base of scheme and host only
urljoin(base, u) ==
    IF IsAbsolute(u) THEN u
    ELSE IF u = <<>> THEN base
    ELSE IF Head(u) = "/" THEN base \o u
    ELSE base \o SLASH \o u

\* a rewrite that forgets the count: url.replace("control", "api")
V3RewriteAll(u) == StrReplace(u, CONTROL, API, 0 - 1)

\* url.replace("control", "api", 1)
V3Rewrite(u) == StrReplace(u, CONTROL, API, 1)

-----------------------------------------------------------------------------
(* Host Session *)

\* SingleHostSession.__init__(host, debug=...)
SingleHostSession(host, debug) ==
    [kind |-> "SingleHostSession", host |-> RStrip(host, "/"), debug |-> debug]

\* the requests module itself, which FinishBackupUploadRequest stores as
\* self.session; it has neither a host nor a debug attribute
RequestsModule == [kind |-> "requests", host |-> <<>>, debug |-> FALSE]

NoRequest == [via |-> "", url |-> <<>>, body |-> "", stream |-> FALSE]

\* SingleHostSession.request(method, url, v3_compatibilty, **kwargs): the
\* request handed to requests.Session.request
SingleHostSessionRequest(sess, u, v3, stream) ==
    LET joined == urljoin(sess.host, u)
    IN  [via    |-> "SingleHostSession",
         url    |-> IF v3 THEN V3Rewrite(joined) ELSE joined,
         body   |-> IF v3 THEN "json" ELSE "data",
         stream |-> stream]

\* self.session.request(self.method, self.get_url(), data=..., ...) as
\* APIRequest.request calls it.  requests.request(method, url, **kwargs) hands
\* its keywords to Session.request, which has no v3_compatibilty parameter.
SessionRequest(sess, u, v3, stream) ==
    IF sess.kind = "SingleHostSession"
    THEN [ok |-> TRUE, exc |-> "",
          req |-> SingleHostSessionRequest(sess, u, v3, stream)]
    ELSE IF v3
    THEN [ok |-> FALSE, exc |-> "TypeError", req |-> NoRequest]
    ELSE [ok |-> TRUE, exc |-> "",
          req |-> [via |-> "requests", url |-> u, body |-> "data",
                   stream |-> stream]]

-----------------------------------------------------------------------------
(* JSON values: what response.json() yields *)

JStr(chars) == [t |-> "str", v |-> chars]
JNum(n)     == [t |-> "num", v |-> <<n>>]
JArr(items) == [t |-> "arr", v |-> items]
\* pairs: a sequence of <<key, value>> in insertion order
JObj(pairs) == [t |-> "obj", v |-> pairs]
\* the body is not JSON: response.json() raises
Malformed   == [t |-> "malformed", v |-> <<>>]

NON_FIELD_ERRORS == <<"non_field_errors">>

ObjHas(j, k) == \E i \in 1..Len(j.v) : j.v[i][1] = k
ObjGet(j, k) ==
    j.v[CHOOSE i \in 1..Len(j.v) :
            /\ j.v[i][1] = k
            /\ \A h \in (i + 1)..Len(j.v) : j.v[h][1] # k][2]

\* iter(j) of Python: the elements of a list, the characters of a str, the
\* keys of a dict; a number is not iterable
Iterable(j) == j.t \in {"arr", "str", "obj"}
Iter(j) ==
    CASE j.t = "arr" -> j.v
      [] j.t = "str" -> [i \in 1..Len(j.v) |-> JStr(<<j.v[i]>>)]
      [] j.t = "obj" -> [i \in 1..Len(j.v) |-> JStr(j.v[i][1])]
      [] OTHER       -> <<>>

\* "\n".join([error for error in response.json()["non_field_errors"]]):
\* ok is FALSE when any step of it raises
NonFieldErrors(j) ==
    IF j.t # "obj" THEN [ok |-> FALSE, lines |-> <<>>]
    ELSE IF ~ObjHas(j, NON_FIELD_ERRORS) THEN [ok |-> FALSE, lines |-> <<>>]
    ELSE LET val   == ObjGet(j, NON_FIELD_ERRORS)
             items == Iter(val)
         IN  IF Iterable(val) /\ \A i \in 1..Len(items) : items[i].t = "str"
             THEN [ok |-> TRUE, lines |-> [i \in 1..Len(items) |-> items[i].v]]
             ELSE [ok |-> FALSE, lines |-> <<>>]

-----------------------------------------------------------------------------
(* Responses *)

\* a body: the length of response.text and the value of response.json()
Body(n, j) == [len |-> n, json |-> j]

\* response.text: character i of the body is written i
Text(b) == [i \in 1..b.len |-> i]

Response(status, b) == [status |-> status, body |-> b]
NoResponse == [status |-> 0, body |-> Body(0, Malformed)]

\* requests.Response.ok: raise_for_status() does not raise, which it does
\* for 400 <= status_code < 600 only
Ok(r) == ~(400 <= r.status /\ r.status < 600)

-----------------------------------------------------------------------------
(* Error classification *)

NETWORK_ERROR_MESSAGE        == <<"NETWORK_ERROR_MESSAGE">>
SERVER_ERROR                 == <<"SERVER_ERROR">>
AUTH_INVALID_TOKEN           == <<"AUTH_INVALID_TOKEN">>
RESOURCE_NOT_FOUND_ANONYMOUS == <<"RESOURCE_NOT_FOUND_ANONYMOUS">>
BAD_REQUEST                  == <<"BAD_REQUEST">>
\* messages.RESOURCE_NOT_FOUND.format(login=login)
RESOURCE_NOT_FOUND(l)        == <<"RESOURCE_NOT_FOUND", l>>

\* the class attribute as the class statement leaves it
ResponseCodeErrorMap ==
    (403 :> AUTH_INVALID_TOKEN) @@ (401 :> AUTH_INVALID_TOKEN) @@
    (404 :> RESOURCE_NOT_FOUND_ANONYMOUS) @@ (400 :> BAD_REQUEST)

\* dict.get(key, default)
DictGet(m, k, default) == IF k \in DOMAIN m THEN m[k] ELSE default

\* what cloud.WritableNetRC().hosts.get(host) does: an entry with a login
\* name, no entry, or the netrc file cannot be read
Logins == {"alice", "bob"}
WritableNetRC ==
    {[kind |-> "entry", name |-> l] : l \in Logins}
        \cup {[kind |-> "absent", name |-> ""], [kind |-> "raises", name |-> ""]}

NotCalled == [called |-> FALSE, kind |-> "", name |-> ""]

\* APIRequest.get_login: the login name, False, or the exception that escapes
get_login(sess, lk) ==
    IF lk.kind = "raises"
    THEN [ok |-> FALSE, exc |-> "NetrcError", found |-> FALSE, name |-> ""]
    ELSE IF sess.kind # "SingleHostSession"
    THEN [ok |-> FALSE, exc |-> "AttributeError", found |-> FALSE, name |-> ""]
    ELSE [ok |-> TRUE, exc |-> "", found |-> lk.kind = "entry", name |-> lk.name]

\* APIRequest.get_error_code_map: the shared mapping after the call, which is
\* also the mapping returned
get_error_code_map(map, lg) ==
    IF lg.found THEN [map EXCEPT ![404] = RESOURCE_NOT_FOUND(lg.name)]
    ELSE map

-----------------------------------------------------------------------------
(* Request definitions *)

Strategies == {"Default", "Raw", "Text", "Json", "File"}

\* class X([DjangoFormMixin,] [<Strategy>Response,] APIRequest | APIV3Request)
RequestClass(base, strategy, form) ==
    [base |-> base, strategy |-> strategy, form |-> form, bare |-> FALSE]

\* class FinishBackupUploadRequest(JsonResponse, APIV3Request), whose
\* __init__ replaces the session by the requests module
FinishBackupUploadRequest ==
    [base |-> "APIV3Request", strategy |-> "Json", form |-> FALSE, bare |-> TRUE]

Classes ==
    {RequestClass(b, st, f) :
        b \in {"APIRequest", "APIV3Request"}, st \in Strategies, f \in BOOLEAN}
        \cup {FinishBackupUploadRequest}

None_   == [given |-> FALSE, value |-> <<>>]
Some(v) == [given |-> TRUE, value |-> v]

-----------------------------------------------------------------------------
(* Outcomes of a dispatch *)

NoDetail == [kind |-> "none", lines |-> <<>>, text |-> <<>>]
NoMsg    == [base |-> <<>>, detail |-> NoDetail]
NoValue  == [kind |-> "none", data |-> <<>>]

NoOutcome ==
    [kind |-> "none", exc |-> "", origin |-> "", msg |-> NoMsg, value |-> NoValue]
Raised(exc, origin, msg) ==
    [kind |-> "raised", exc |-> exc, origin |-> origin, msg |-> msg,
     value |-> NoValue]
Returned(k, data) ==
    [kind |-> "returned", exc |-> "", origin |-> "", msg |-> NoMsg,
     value |-> [kind |-> k, data |-> data]]

\* what verify did: the shared mapping after it, what get_login did, whether
\* the not-found entry was rewritten, the outcome (NoOutcome while
\* FileResponse.process is still reading), the calls of process
Verified(map, lg, rw, out, proc) ==
    [map |-> map, login |-> lg, rewrote |-> rw, outcome |-> out, proc |-> proc]

-----------------------------------------------------------------------------
(* process *)

\* APIRequest.process and JsonResponse.process: response.json()
ProcessJson(r) ==
    IF r.body.json.t = "malformed"
    THEN Raised("JSONDecodeError", "process", NoMsg)
    ELSE Returned("json", r.body.json)

\* the process the class resolves to; FileResponse.process only opens the
\* dump file here and reads the body chunk by chunk afterwards
Process(c, r) ==
    CASE c.strategy = "Raw"  -> Returned("response", r)
      [] c.strategy = "Text" -> Returned("text", Text(r.body))
      [] c.strategy = "File" -> NoOutcome
      [] OTHER               -> ProcessJson(r)

-----------------------------------------------------------------------------
(* verify *)

\* a truncation that forgets the debug flag
ResponseContentAlwaysCut(text, debug) == Slice(text, TruncLen)

\* response_content = response.text; if not self.session.debug:
\* response_content = response_content[:300]
ResponseContent(text, debug) == IF ~debug THEN Slice(text, TruncLen) ELSE text

\* the non-ok branch of APIRequest.verify
VerifyError(sess, map, r, lk) ==
    LET lg == get_login(sess, lk)
        called == [called |-> TRUE, kind |-> lk.kind, name |-> lk.name]
    IN  IF ~lg.ok
        THEN Verified(map, called, FALSE, Raised(lg.exc, "get_login", NoMsg), 0)
        ELSE LET map2    == get_error_code_map(map, lg)
                 base    == DictGet(map2, r.status, SERVER_ERROR)
                 content == ResponseContent(Text(r.body), sess.debug)
                 nfe     == NonFieldErrors(r.body.json)
                 detail  ==
                     IF content = <<>> THEN NoDetail
                     ELSE IF nfe.ok
                     THEN [kind |-> "non_field_errors", lines |-> nfe.lines,
                           text |-> <<>>]
                     ELSE [kind |-> "raw", lines |-> <<>>, text |-> content]
             IN  Verified(map2, called, lg.found,
                          Raised("APIRequestError", "verify",
                                 [base |-> base, detail |-> detail]), 0)

\* a verify that takes only server errors for failures
APIRequest_verify_ServerErrorsOnly(c, sess, map, r, lk) ==
    IF r.status >= 500 THEN VerifyError(sess, map, r, lk)
    ELSE Verified(map, NotCalled, FALSE, Process(c, r), 1)

\* APIRequest.verify
APIRequest_verify(c, sess, map, r, lk) ==
    IF ~Ok(r) THEN VerifyError(sess, map, r, lk)
    ELSE Verified(map, NotCalled, FALSE, Process(c, r), 1)

\* the report DjangoFormMixin.verify builds from response.json().items()
FormReport(j) ==
    IF j.t = "malformed" THEN [ok |-> FALSE, exc |-> "JSONDecodeError", sections |-> <<>>]
    ELSE IF j.t # "obj" THEN [ok |-> FALSE, exc |-> "AttributeError", sections |-> <<>>]
    ELSE IF \E i \in 1..Len(j.v) : ~Iterable(j.v[i][2])
    THEN [ok |-> FALSE, exc |-> "TypeError", sections |-> <<>>]
    ELSE [ok |-> TRUE, exc |-> "",
          sections |-> [i \in 1..Len(j.v) |->
                           [field |-> j.v[i][1], bullets |-> Iter(j.v[i][2])]]]

\* DjangoFormMixin.verify
DjangoFormMixin_verify(c, sess, map, r, lk) ==
    IF Ok(r)
    THEN Verified(map, NotCalled, FALSE, Returned("success_message", <<>>), 0)
    ELSE IF r.status = 400
    THEN LET rep == FormReport(r.body.json)
         IN  Verified(map, NotCalled, FALSE,
                      IF rep.ok THEN Returned("report", rep.sections)
                      ELSE Raised(rep.exc, "DjangoFormMixin.verify", NoMsg), 0)
    ELSE APIRequest_verify(c, sess, map, r, lk)

\* self.verify(response) as the class resolves it
verify(c, sess, map, r, lk) ==
    IF c.form THEN DjangoFormMixin_verify(c, sess, map, r, lk)
    ELSE APIRequest_verify(c, sess, map, r, lk)

-----------------------------------------------------------------------------
(* FileResponse.process *)

\* create_temp_dir(): a fresh directory
TEMP_DIR == <<"tmp">>
DEFAULT_FILENAME == <<"data.tar.gz">>

\* x or default
OrDefault(x, default) == IF x.given /\ x.value # <<>> THEN x.value ELSE default

\* os.path.join(a, b) for a relative b
PathJoin(a, b) == a \o <<"/">> \o b

\* dump_path
DumpPath(dir, fn) ==
    PathJoin(OrDefault(dir, TEMP_DIR), OrDefault(fn, DEFAULT_FILENAME))

NoFile == [open |-> FALSE, path |-> <<>>, buf |-> <<>>, disk |-> <<>>]

\* open(dump_path, "wb"): the file is created or truncated
OpenWb(path) == [open |-> TRUE, path |-> path, buf |-> <<>>, disk |-> <<>>]
\* f.write(chunk)
Write(f, ch) == [f EXCEPT !.buf = @ \o ch]
\* f.flush()
Flush(f) == [f EXCEPT !.disk = @ \o f.buf, !.buf = <<>>]
\* leaving the with block
Close(f) == [Flush(f) EXCEPT !.open = FALSE]

\* a loop body that leaves the flush out
WriteChunkNoFlush(f, ch) == IF ch # <<>> THEN Write(f, ch) ELSE f

\* the body of the for loop: if chunk: f.write(chunk); f.flush()
WriteChunk(f, ch) == IF ch # <<>> THEN Flush(Write(f, ch)) ELSE f

-----------------------------------------------------------------------------
(* The dispatch of a request *)

Init ==
    /\ response_code_error_map = ResponseCodeErrorMap
    /\ cls = RequestClass("APIRequest", "Default", FALSE)
    /\ session = RequestsModule
    /\ url = <<>>
    /\ url_kwargs = NoKwargs
    /\ filename = None_
    /\ directory = None_
    /\ pc = "idle"
    /\ trace = <<>>
    /\ sent = <<>>
    /\ response = NoResponse
    /\ login = NotCalled
    /\ rewrote = FALSE
    /\ outcome = NoOutcome
    /\ procCalls = 0
    /\ verifyCalls = 0
    /\ file = NoFile
    /\ delivered = <<>>

Terminal == pc \in {"succeeded", "failed"}

\* the state of a dispatch that has not started
Fresh ==
    /\ pc' = "built"
    /\ trace' = <<"built">>
    /\ sent' = <<>>
    /\ response' = NoResponse
    /\ login' = NotCalled
    /\ outcome' = NoOutcome
    /\ procCalls' = 0
    /\ verifyCalls' = 0
    /\ file' = NoFile
    /\ delivered' = <<>>

\* X(session, url=u, url_kwargs=kw, filename=fn, directory=dir): __init__ of
\* APIRequest, FileResponse and FinishBackupUploadRequest
Construct(c, s, u, kw, fn, dir) ==
    /\ pc = "idle" \/ Terminal
    /\ cls' = c
    /\ session' = IF c.bare THEN RequestsModule ELSE s
    /\ url' = u
    /\ url_kwargs' = kw
    /\ filename' = IF c.strategy = "File" THEN fn ELSE None_
    /\ directory' = IF c.strategy = "File" THEN dir ELSE None_
    /\ rewrote' = FALSE
    /\ Fresh
    /\ UNCHANGED response_code_error_map

\* the same instance is called again
Redispatch ==
    /\ Terminal
    /\ Fresh
    /\ UNCHANGED <<response_code_error_map, cls, session, url, url_kwargs,
                   filename, directory, rewrote>>

Fail(exc, origin, msg) ==
    /\ pc' = "failed"
    /\ trace' = Append(trace, "failed")
    /\ outcome' = Raised(exc, origin, msg)

\* APIRequest.request up to the call of self.session.request (with
\* APIV3Request.request and FileResponse.request before it)
Request ==
    /\ pc = "built"
    /\ LET g  == get_url(url, url_kwargs)
           sr == SessionRequest(session, g.url, cls.base = "APIV3Request",
                                cls.strategy = "File")
       IN  IF ~g.ok THEN Fail("KeyError", "get_url", NoMsg) /\ sent' = sent
           ELSE IF ~sr.ok THEN Fail(sr.exc, "session.request", NoMsg) /\ sent' = sent
           ELSE /\ pc' = "sent"
                /\ trace' = Append(trace, "sent")
                /\ sent' = Append(sent, sr.req)
                /\ outcome' = outcome
    /\ UNCHANGED <<response_code_error_map, cls, session, url, url_kwargs,
                   filename, directory, response, login, rewrote, procCalls,
                   verifyCalls, file, delivered>>

\* an except clause that sends the request again instead of raising
RequestExceptRetry ==
    /\ pc = "sent"
    /\ Len(sent) < 3
    /\ sent' = Append(sent, sent[Len(sent)])
    /\ trace' = Append(trace, "sent")
    /\ UNCHANGED <<response_code_error_map, cls, session, url, url_kwargs,
                   filename, directory, pc, response, login, rewrote, outcome,
                   procCalls, verifyCalls, file, delivered>>

\* except (ConnectionError, Timeout): raise click.ClickException(...)
RequestExcept ==
    /\ pc = "sent"
    /\ Fail("ClickException", "request",
            [base |-> NETWORK_ERROR_MESSAGE, detail |-> NoDetail])
    /\ UNCHANGED <<response_code_error_map, cls, session, url, url_kwargs,
                   filename, directory, sent, response, login, rewrote,
                   procCalls, verifyCalls, file, delivered>>

\* the transport returned r and request() calls self.verify(r); lk is what
\* the netrc lookup does if verify gets to it
Verify(r, lk) ==
    /\ pc = "sent"
    /\ (sent[Len(sent)].stream /\ Ok(r)) => r.body.len = 0
    /\ LET v == verify(cls, session, response_code_error_map, r, lk)
       IN  /\ response_code_error_map' = v.map
           /\ login' = v.login
           /\ rewrote' = (rewrote \/ v.rewrote)
           /\ outcome' = v.outcome
           /\ procCalls' = procCalls + v.proc
           /\ file' = IF v.proc = 1 /\ cls.strategy = "File"
                      THEN OpenWb(DumpPath(directory, filename)) ELSE file
    /\ response' = r
    /\ verifyCalls' = verifyCalls + 1
    /\ pc' = "verified"
    /\ trace' = Append(trace, "verified")
    /\ UNCHANGED <<cls, session, url, url_kwargs, filename, directory, sent,
                   delivered>>

\* one turn of for chunk in response.iter_content(chunk_size=1024)
FileChunk(ch) ==
    /\ pc = "verified"
    /\ file.open
    /\ Len(delivered) < MaxChunks
    /\ delivered' = Append(delivered, ch)
    /\ file' = WriteChunk(file, ch)
    /\ UNCHANGED <<response_code_error_map, cls, session, url, url_kwargs,
                   filename, directory, pc, trace, sent, response, login,
                   rewrote, outcome, procCalls, verifyCalls>>

\* iter_content is exhausted: the with block ends and process returns
FileClose ==
    /\ pc = "verified"
    /\ file.open
    /\ file' = Close(file)
    /\ outcome' = Returned("path", file.path)
    /\ UNCHANGED <<response_code_error_map, cls, session, url, url_kwargs,
                   filename, directory, pc, trace, sent, response, login,
                   rewrote, procCalls, verifyCalls, delivered>>

\* the connection breaks while iter_content reads the body: the exception
\* leaves the with block and process, which no handler catches
IterContentFails ==
    /\ pc = "verified"
    /\ file.open
    /\ file' = Close(file)
    /\ outcome' = Raised("ConnectionError", "iter_content", NoMsg)
    /\ UNCHANGED <<response_code_error_map, cls, session, url, url_kwargs,
                   filename, directory, pc, trace, sent, response, login,
                   rewrote, procCalls, verifyCalls, delivered>>

\* request() returns what verify returned, or verify's exception leaves it
Return ==
    /\ pc = "verified"
    /\ outcome.kind # "none"
    /\ pc' = IF outcome.kind = "returned" THEN "succeeded" ELSE "failed"
    /\ trace' = Append(trace, pc')
    /\ UNCHANGED <<response_code_error_map, cls, session, url, url_kwargs,
                   filename, directory, sent, response, login, rewrote,
                   outcome, procCalls, verifyCalls, file, delivered>>

-----------------------------------------------------------------------------
(* Inputs *)

HOST == SCHEME \o CONTROL
Sessions == {SingleHostSession(HOST, d) : d \in BOOLEAN}
Templates == {<<"/", PLACEHOLDER>>}
KwargValues == {NoKwargs, Kwargs(<<"7">>)}
\* filename= and directory= are keywords of FileResponse.__init__ only
FileArgs(c) == IF c.strategy = "File" THEN {None_, Some(<<"x">>)} ELSE {None_}

\* a sequence, not a set: JSON values of different types are never compared
Bodies ==
   << Body(0, Malformed),
      Body(TruncLen, Malformed),
      Body(TruncLen + 1, Malformed),
      Body(TruncLen + 2, JObj(<< <<NON_FIELD_ERRORS, JArr(<<JStr(<<"a">>), JStr(<<"b">>)>>)>> >>)),
      Body(TruncLen + 1, JObj(<< <<NON_FIELD_ERRORS, JArr(<<JNum(1)>>)>> >>)),
      Body(TruncLen + 1, JObj(<< <<NON_FIELD_ERRORS, JNum(1)>> >>)),
      Body(40, JObj(<< <<<<"name">>, JArr(<<JStr(<<"required">>)>>)>>,
                       <<<<"email">>, JArr(<<JStr(<<"invalid">>), JStr(<<"too long">>)>>)>> >>)),
      Body(9, JObj(<< <<<<"name">>, JNum(5)>> >>)),
      Body(5, JArr(<<JStr(<<"a">>)>>)) >>

Statuses == {200, 304, 400, 403, 404, 500}

Bytes == {0, 1}
RECURSIVE SeqsUpTo(_, _)
\* the sequences over S of length at most n
SeqsUpTo(S, n) ==
    IF n = 0 THEN {<<>>}
    ELSE LET shorter == SeqsUpTo(S, n - 1)
         IN  shorter \cup {Append(q, x) : q \in shorter, x \in S}
Chunks == SeqsUpTo(Bytes, MaxChunkLen)
SmallChunks == {<<>>, <<0>>}

-----------------------------------------------------------------------------
(* Specifications *)

Next ==
    \/ \E c \in Classes, s \in Sessions, u \in Templates, kw \in KwargValues :
          \E fn \in FileArgs(c), dir \in FileArgs(c) :
              Construct(c, s, u, kw, fn, dir)
    \/ Redispatch
    \/ Request
    \/ RequestExcept
    \/ \E st \in Statuses, b \in 1..Len(Bodies), lk \in WritableNetRC :
          Verify(Response(st, Bodies[b]), lk)
    \/ \E ch \in SmallChunks : FileChunk(ch)
    \/ FileClose
    \/ IterContentFails
    \/ Return

Spec == Init /\ [][Next]_vars


(* The URL of the request sent, over many hosts and URL templates *)

CON == <<"c", "o", "n">>
HostPieces == {CONTROL, CON}
PathPieces == {CONTROL, SLASH, <<PLACEHOLDER>>}

\* hosts as the caller writes them, with or without a trailing slash
Hosts ==
    LET names == {Flatten(ps) : ps \in SeqsUpTo(HostPieces, MaxPieces) \ {<<>>}}
    IN  {SCHEME \o n : n \in names} \cup {SCHEME \o n \o SLASH : n \in names}

\* relative URL templates (none a network-path reference "//...") and
\* absolute ones
UrlTemplates ==
    LET paths == {Flatten(ps) : ps \in SeqsUpTo(PathPieces, MaxPieces)}
    IN  {p \in paths : ~StartsWithAt(p, <<"/", "/">>, 1)}
            \cup {SCHEME \o <<"s">> \o p : p \in paths}

UrlKwargValues == {NoKwargs, Kwargs(CONTROL)}

UrlClasses ==
    {RequestClass("APIRequest", "Json", FALSE),
     RequestClass("APIV3Request", "Json", FALSE),
     FinishBackupUploadRequest}

NextUrl ==
    \/ /\ pc = "idle"
       /\ \E c \in UrlClasses, h \in Hosts, u \in UrlTemplates,
             kw \in UrlKwargValues :
             Construct(c, SingleHostSession(h, FALSE), u, kw, None_, None_)
    \/ Redispatch
    \/ Request
    \/ RequestExcept
    \/ Verify(Response(200, Bodies[1]), [kind |-> "absent", name |-> ""])
    \/ Return

SpecUrl == Init /\ [][NextUrl]_vars

(* The download of a streamed body, over many chunk sequences *)

FileClasses ==
    {RequestClass("APIRequest", "File", FALSE),
     RequestClass("APIV3Request", "File", FALSE)}

NextFile ==
    \/ /\ pc = "idle"
       /\ \E c \in FileClasses :
             \E fn \in FileArgs(c), dir \in FileArgs(c) :
                 Construct(c, SingleHostSession(HOST, FALSE), <<"/">>,
                           NoKwargs, fn, dir)
    \/ Redispatch
    \/ Request
    \/ RequestExcept
    \/ Verify(Response(200, Bodies[1]), [kind |-> "absent", name |-> ""])
    \/ \E ch \in Chunks : FileChunk(ch)
    \/ FileClose
    \/ IterContentFails
    \/ Return

SpecFile == Init /\ [][NextFile]_vars


-----------------------------------------------------------------------------
(* Properties *)

\* verify has run in the current dispatch
VerifyRan == verifyCalls > 0
Is2xx(r) == 200 <= r.status /\ r.status < 300
StatusOk(r) == r.status < 400 \/ r.status > 599

\* the outcome of the dispatch is what the class's process made of the response
OutcomeIsProcessResult ==
    CASE cls.strategy = "Raw" ->
            /\ outcome.kind = "returned"
            /\ outcome.value.kind = "response"
            /\ outcome.value.data = response
      [] cls.strategy = "Text" ->
            /\ outcome.kind = "returned"
            /\ outcome.value.kind = "text"
            /\ outcome.value.data = [i \in 1..response.body.len |-> i]
      [] cls.strategy = "File" ->
            \/ outcome.kind = "none" /\ file.open
            \/ outcome.kind = "returned" /\ outcome.value.kind = "path"
            \/ outcome.kind = "raised" /\ outcome.origin = "iter_content"
      [] OTHER ->
            IF response.body.json.t = "malformed"
            THEN outcome.kind = "raised" /\ outcome.origin = "process"
            ELSE /\ outcome.kind = "returned"
                 /\ outcome.value.kind = "json"
                 /\ outcome.value.data.t = response.body.json.t

\* C1 as stated: for every request definition and every response, a 2xx
\* response makes verify call process exactly once and return its result, and
\* a non-2xx response never makes it call process.
C1_Original ==
    VerifyRan =>
        IF Is2xx(response) THEN procCalls = 1 /\ OutcomeIsProcessResult
        ELSE procCalls = 0

\* C1 as amended: a definition without DjangoFormMixin calls process exactly
\* once, and its outcome is that of process, when the response is ok (status
\* outside 400..599), and never calls process for a 4xx or 5xx status; a
\* definition with DjangoFormMixin never calls process and returns its
\* success message for an ok response.
C1_ProcessCalledIffOk ==
    VerifyRan =>
        IF cls.form
        THEN /\ procCalls = 0
             /\ StatusOk(response) =>
                    /\ outcome.kind = "returned"
                    /\ outcome.value.kind = "success_message"
        ELSE IF StatusOk(response)
        THEN procCalls = 1 /\ OutcomeIsProcessResult
        ELSE procCalls = 0

\* C1: a dispatch of a definition without DjangoFormMixin got a 304 response
\* and returned what its one call of process returned
C1_Witness ==
    /\ pc = "succeeded"
    /\ ~cls.form
    /\ response.status = 304
    /\ procCalls = 1
    /\ outcome.value.kind = "text"

\* C2 as stated: an instance that never rewrote its not-found entry sees the
\* error table of the class statement, whatever other instances resolved.
C2_NoLeakAcrossInstances ==
    ~rewrote => response_code_error_map = ResponseCodeErrorMap

\* C3 as stated: a dispatch that receives a 404 raises the not-found message
\* referencing the login its own lookup found, and the anonymous not-found
\* message when its lookup found nothing, whatever earlier dispatches resolved.
C3_NotFoundMessage ==
    (VerifyRan /\ response.status = 404 /\ login.called
        /\ login.kind \in {"entry", "absent"}) =>
        /\ outcome.exc = "APIRequestError"
        /\ outcome.msg.base =
              IF login.kind = "entry" THEN <<"RESOURCE_NOT_FOUND", login.name>>
              ELSE <<"RESOURCE_NOT_FOUND_ANONYMOUS">>

\* C4 as stated: for every request definition and every non-2xx response with
\* a non-empty body, no failure of parsing the structured error details
\* reaches the caller.
C4_ParseFailureNeverRaised ==
    (VerifyRan /\ ~Is2xx(response) /\ response.body.len > 0) =>
        ~(outcome.kind = "raised" /\ outcome.origin = "DjangoFormMixin.verify")

\* C5 as stated: when the login lookup finds no entry or itself raises,
\* verify still raises the classified error built from the generic table.
C5_LookupNeverFailsRequest ==
    (VerifyRan /\ login.called /\ login.kind \in {"absent", "raises"}) =>
        /\ outcome.exc = "APIRequestError"
        /\ outcome.msg.base =
              IF response.status \in DOMAIN ResponseCodeErrorMap
              THEN ResponseCodeErrorMap[response.status]
              ELSE <<"SERVER_ERROR">>

\* the stages a dispatch may have gone through
DispatchPaths ==
    { <<"built", "sent", "verified", "succeeded">>,
      <<"built", "sent", "verified", "failed">>,
      <<"built", "sent", "failed">>,
      <<"built", "failed">> }
IsPrefix(p, q) == Len(p) <= Len(q) /\ SubSeq(q, 1, Len(p)) = p

\* what C6 says of every dispatch apart from network failures
DispatchStateMachine ==
    /\ \E q \in DispatchPaths : IsPrefix(trace, q)
    /\ Len(sent) <= 1
    /\ verifyCalls <= 1
    /\ verifyCalls = 1 => (Len(sent) = 1 /\ response.status # 0)
    /\ procCalls <= verifyCalls
    /\ pc = "succeeded" => outcome.kind = "returned"
    /\ pc = "failed" => outcome.kind = "raised"
    /\ outcome.kind = "raised" /\ outcome.origin \in {"get_url", "session.request"}
          => (Len(sent) = 0 /\ verifyCalls = 0)

\* C6 as stated: the state machine, and every network failure (connection
\* error or timeout) ends the dispatch without verify or process having run.
C6_Original ==
    /\ DispatchStateMachine
    /\ (pc = "failed" /\ outcome.exc \in {"ClickException", "ConnectionError"})
          => (verifyCalls = 0 /\ procCalls = 0)

\* C6 as amended: the state machine; a network failure of the transport call
\* ends the dispatch in failed, straight from sent, without verify or process
\* having run; a connection lost while FileResponse.process reads the streamed
\* body ends it in failed after verify, inside the one call of process.
C6_DispatchStateMachine ==
    /\ DispatchStateMachine
    /\ (pc = "failed" /\ outcome.exc = "ClickException")
          => (verifyCalls = 0 /\ procCalls = 0 /\ trace = <<"built", "sent", "failed">>)
    /\ (pc = "failed" /\ outcome.exc = "ConnectionError")
          => /\ verifyCalls = 1 /\ procCalls = 1 /\ cls.strategy = "File"
             /\ trace = <<"built", "sent", "verified", "failed">>

\* C6: a dispatch whose transport call failed ended in failed
C6_Witness ==
    /\ pc = "failed"
    /\ outcome.exc = "ClickException"
    /\ Len(sent) = 1
    /\ verifyCalls = 0

\* C7 as stated: a dispatch of FinishBackupUploadRequest sends exactly one
\* request, through the bare client, to the URL it was constructed with, and
\* ends with the decoded JSON body or the classified error.
C7_BareClientDispatch ==
    (cls.bare /\ Terminal) =>
        /\ Len(sent) = 1
        /\ sent[1].via = "requests"
        /\ sent[1].url = Format(url, url_kwargs)
        /\ \/ outcome.kind = "returned" /\ outcome.value.kind = "json"
           \/ outcome.kind = "raised" /\ outcome.exc \in {"APIRequestError", "ClickException"}

\* the places where p occurs in s
Occurrences(s, p) ==
    {i \in 1..Len(s) : i + Len(p) - 1 <= Len(s) /\ SubSeq(s, i, i + Len(p) - 1) = p}

\* out is s with its first "control" replaced by "api", or s if it has none
FirstControlReplaced(s, out) ==
    LET occ == Occurrences(s, CONTROL)
    IN  IF occ = {} THEN out = s
        ELSE LET i == CHOOSE k \in occ : \A h \in occ : k <= h
             IN  out = SubSeq(s, 1, i - 1) \o <<"a", "p", "i">>
                           \o SubSeq(s, i + 7, Len(s))

\* the URL the session resolves for the current instance
ResolvedUrl == urljoin(session.host, Format(url, url_kwargs))
\* Request has run and get_url did not fail
RequestRan == pc \notin {"idle", "built"} /\ outcome.origin # "get_url"

\* C8 as stated: every dispatch of an APIV3Request goes through the Host
\* Session, which sends the resolved URL with its first "control" replaced by
\* "api"; a legacy request's URL is sent as resolved.
C8_Original ==
    RequestRan =>
        /\ Len(sent) = 1
        /\ sent[1].via = "SingleHostSession"
        /\ IF cls.base = "APIV3Request"
           THEN FirstControlReplaced(ResolvedUrl, sent[1].url)
           ELSE sent[1].url = ResolvedUrl

\* C8 as amended: the same of every request bound to a Host Session, which
\* is every definition but FinishBackupUploadRequest.
C8_FirstControlRewritten ==
    (RequestRan /\ ~cls.bare) =>
        /\ Len(sent) = 1
        /\ sent[1].via = "SingleHostSession"
        /\ IF cls.base = "APIV3Request"
           THEN FirstControlReplaced(ResolvedUrl, sent[1].url)
           ELSE sent[1].url = ResolvedUrl

\* C8: a versioned request whose resolved URL holds "control" more than once
\* was sent, and the URL sent still holds a "control"
C8_Witness ==
    /\ pc = "sent"
    /\ cls.base = "APIV3Request"
    /\ Cardinality(Occurrences(ResolvedUrl, CONTROL)) >= 2
    /\ Occurrences(sent[1].url, CONTROL) # {}

RECURSIVE Concat(_)
Concat(chunks) ==
    IF chunks = <<>> THEN <<>> ELSE Head(chunks) \o Concat(Tail(chunks))
RECURSIVE SumLen(_)
SumLen(chunks) ==
    IF chunks = <<>> THEN 0 ELSE Len(Head(chunks)) + SumLen(Tail(chunks))
NonEmpty(chunks) == SelectSeq(chunks, LAMBDA ch : ch # <<>>)

\* C10: whenever FileResponse.process is about to read the next chunk, every
\* chunk delivered so far is on disk (nothing is left unflushed); when it has
\* returned, the file holds the non-empty chunks in delivery order, its size
\* is the sum of their sizes, and the path returned is the directory joined
\* with the filename (the temporary directory and "data.tar.gz" for those
\* not given).
C10_FileIsConcatenationOfChunks ==
    /\ file.open =>
          /\ file.buf = <<>>
          /\ file.disk = Concat(NonEmpty(delivered))
    /\ (outcome.kind = "returned" /\ outcome.value.kind = "path") =>
          /\ ~file.open
          /\ file.disk = Concat(NonEmpty(delivered))
          /\ Len(file.disk) = SumLen(delivered)
          /\ outcome.value.data =
                (IF directory.given THEN directory.value ELSE <<"tmp">>)
                    \o <<"/">> \o
                (IF filename.given THEN filename.value ELSE <<"data.tar.gz">>)

\* C10: a download delivered a chunk of several bytes, a keep-alive chunk and
\* another chunk, and returned the path of the file
C10_Witness ==
    /\ pc = "succeeded"
    /\ outcome.value.kind = "path"
    /\ directory.given /\ filename.given
    /\ Len(delivered) = 3
    /\ Len(delivered[1]) > 1
    /\ delivered[2] = <<>>
    /\ delivered[3] # <<>>
    /\ file.disk = delivered[1] \o delivered[3]

====
